---- MODULE Spec2Model ----
(***************************************************************************)
(* Verification model of cloudloyalty/db: the migration runner             *)
(* (migrate.go), the placeholder scanner, value encoder and literal        *)
(* quoter (db.go, latest revision) and the statement executor facade.      *)
(* Texts are sequences of one-character strings.                           *)
(***************************************************************************)
EXTENDS Integers, Sequences, FiniteSets, TLC

\* ------------------------------------------------------------------------
\* Bounds
\* ------------------------------------------------------------------------
MaxVersion == 3      \* migration versions are 1..MaxVersion
MaxRuns == 2         \* sequential Migrate.Run invocations explored
MaxReadRuns == 1     \* Runs explored on a connection whose reads may be denied

\* ------------------------------------------------------------------------
\* Generic helpers
\* ------------------------------------------------------------------------
Range(s) == {s[n] : n \in 1..Len(s)}

MaxOf(S) == IF S = {} THEN 0 ELSE CHOOSE x \in S : \A y \in S : y <= x

\* all sequences over S of length n / of length at most n
SeqsOfLen(S, n) == [1..n -> S]
SeqsUpTo(S, n) == UNION {SeqsOfLen(S, m) : m \in 0..n}

\* ========================================================================
\* Migration runner (migrate.go)
\* ========================================================================
VARIABLES
  dbTable,        \* persisted: the migrations table exists
  dbRows,         \* persisted: set of version values stored in the table
  pc,             \* position of the Run in progress
  migrations,     \* argument of the current (or last) Run
  k,              \* index of the next element of the range loop
  latest,         \* local variable latest of Run
  err,            \* local variable err of Run
  txTable,        \* the transaction's view of the table
  txRows,         \* the transaction's view of its rows
  execLog,        \* versions whose body was passed to tx.Exec in this Run
  failedBody,     \* version of the body that failed in this Run, 0 if none
  ret,            \* error returned by the last Run
  outcome,        \* how the last Run's transaction ended
  envFault,       \* the connection failed a read, Begin or Commit in this Run
  preTable,       \* dbTable when the Run started
  preVersion,     \* persisted version when the Run started
  priorCommitted, \* a Run with this same list committed before this Run
  runs,           \* number of Runs started
  committedLog,   \* versions of the bodies made durable by commits, in order
  committedLists, \* argument lists of the Runs that committed
  scanned         \* what row.Scan gave the last version read

VARIABLES
  qSql,      \* template given to qprintf / Exec / Query / QueryRow
  qParams,   \* parameter mapping given with it
  qCtx,      \* the caller's context
  qOp,       \* the operation that was applied, "none" before
  qRes,      \* what qprintf returned (and the names it looked up)
  qCalls,    \* calls received by the connection collaborator
  qRet       \* what Exec / Query / QueryRow returned

VARIABLES
  vInput,    \* value given to toDbValue, or text given to quoteLiteral
  vOp,       \* the operation that was applied, "none" before
  vOut       \* its result

VARIABLES
  cList,     \* the migration list every overlapping Run is given
  cRun,      \* per caller: the locals and the transaction of its Run
  cOverlap,  \* the two Runs on record were in progress at the same time
  cStarted   \* number of Runs started by the callers

cVars == <<cList, cRun, cOverlap, cStarted>>

qVars == <<qSql, qParams, qCtx, qOp, qRes, qCalls, qRet>>
vVars == <<vInput, vOp, vOut>>

migVars == <<dbTable, dbRows, pc, migrations, k, latest, err, txTable, txRows,
             execLog, failedBody, ret, outcome, envFault, preTable,
             preVersion, priorCommitted, runs, committedLog, committedLists,
             scanned>>

Versions == 1..MaxVersion

\* const InitialMigration: the body that creates the catalog table
InitialMigration == "InitialMigration"

\* type Migration struct { Version int; Sql string }; the caller supplies
\* InitialMigration as the lowest version, any other body is opaque DDL
Migration(v) == [Version |-> v, Sql |-> IF v = 1 THEN InitialMigration ELSE "ddl"]

\* the lists a caller may pass: distinct versions, any slice order
MigrationLists ==
  {[n \in 1..Len(vs) |-> Migration(vs[n])] :
     vs \in {s \in SeqsUpTo(Versions, MaxVersion) :
               \A a, b \in 1..Len(s) : a # b => s[a] # s[b]}}

NoErr == [kind |-> "nil", v |-> 0]
BodyErr(v) == [kind |-> "body", v |-> v]
BeginErr == [kind |-> "begin", v |-> 0]
ReadErr == [kind |-> "read", v |-> 0]
UpdateErr == [kind |-> "update", v |-> 0]

\* the single persisted version; 0 when the table or its row is absent
VersionOf(table, rows) == IF table /\ rows # {} THEN MaxOf(rows) ELSE 0
PersistedVersion == VersionOf(dbTable, dbRows)

\* row.Scan of "SELECT version FROM migrations" on the persisted state
ScanResults(table, rows) ==
  IF ~table THEN {[err |-> "undefined_table", mentions |-> TRUE, value |-> 0]}
  ELSE IF rows = {} THEN {[err |-> "ErrNoRows", mentions |-> FALSE, value |-> 0]}
  ELSE {[err |-> "nil", mentions |-> FALSE, value |-> r] : r \in rows}

\* a failure of the connection itself, unrelated to the catalog table
ConnectionFailure == [err |-> "conn", mentions |-> FALSE, value |-> 0]

\* a failure whose message names the catalog table although the table is
\* there ("permission denied for relation migrations")
PermissionDenied == [err |-> "permission_denied", mentions |-> TRUE, value |-> 0]

\* a successful scan, and the value of scanned before any read
NoScan == [err |-> "nil", mentions |-> FALSE, value |-> 0]

\* a version read that passes over every failure
getLatestVersionIgnoringErrors(scan) == [latest |-> scan.value, err |-> NoErr]

\* Migrate.getLatestVersion
getLatestVersion(scan) ==
  IF scan.err # "nil" /\ scan.err # "ErrNoRows" /\ ~scan.mentions
  THEN [latest |-> 0, err |-> ReadErr]
  ELSE [latest |-> scan.value, err |-> NoErr]

\* effect of a migration body on the transaction's view of the catalog
\* (InitialMigration: CREATE TABLE IF NOT EXISTS + INSERT VALUES (1), the
\* insert violating the primary key when a row 1 exists)
BodyEffect(m, table, rows) ==
  IF m.Sql = InitialMigration
  THEN IF table /\ 1 \in rows
       THEN [ok |-> FALSE, table |-> table, rows |-> rows]
       ELSE [ok |-> TRUE, table |-> TRUE, rows |-> (IF table THEN rows ELSE {}) \cup {1}]
  ELSE [ok |-> TRUE, table |-> table, rows |-> rows]

\* effect of "UPDATE migrations SET version = :latest"
UpdateEffect(v, table, rows) ==
  IF ~table \/ Cardinality(rows) > 1
  THEN [ok |-> FALSE, rows |-> rows]
  ELSE [ok |-> TRUE, rows |-> IF rows = {} THEN {} ELSE {v}]

\* the state after NewMigrate, on a database whose catalog is (table, rows)
MigInitWith(table, rows) ==
  /\ dbTable = table /\ dbRows = rows
  /\ pc = "idle" /\ migrations = <<>> /\ k = 1 /\ latest = 0 /\ err = NoErr
  /\ txTable = FALSE /\ txRows = {}
  /\ execLog = <<>> /\ failedBody = 0 /\ ret = NoErr /\ outcome = "none"
  /\ envFault = FALSE /\ preTable = FALSE /\ preVersion = 0
  /\ priorCommitted = FALSE /\ runs = 0
  /\ committedLog = <<>> /\ committedLists = {}
  /\ scanned = NoScan

MigInit == MigInitWith(FALSE, {})

\* Run, lines 30-33: read the current version, outside any transaction;
\* scans are the answers the connection may give to the read
ReadWith(scans, limit) ==
  /\ pc = "idle" /\ runs < limit
  /\ \E ms \in MigrationLists, scan \in scans :
       LET r == getLatestVersion(scan) IN
         /\ migrations' = ms
         /\ scanned' = scan
         /\ runs' = runs + 1
         /\ preTable' = dbTable /\ preVersion' = PersistedVersion
         /\ priorCommitted' = (ms \in committedLists)
         /\ execLog' = <<>> /\ failedBody' = 0 /\ k' = 1
         /\ latest' = r.latest
         /\ envFault' = (scan = ConnectionFailure)
         /\ IF r.err # NoErr
            THEN /\ pc' = "idle" /\ ret' = r.err /\ outcome' = "notx"
                 /\ err' = r.err
            ELSE /\ pc' = "begin" /\ ret' = NoErr /\ outcome' = "none"
                 /\ err' = NoErr
  /\ UNCHANGED <<dbTable, dbRows, txTable, txRows, committedLog, committedLists>>
  /\ UNCHANGED <<qVars, vVars, cVars>>

\* the version read on a connection that answers from the catalog, or fails
ReadVersion ==
  ReadWith(ScanResults(dbTable, dbRows) \cup {ConnectionFailure}, MaxRuns)

\* the version read on a connection that may also be denied the table
ReadVersionOrDenied ==
  ReadWith(ScanResults(dbTable, dbRows) \cup {ConnectionFailure}
             \cup (IF dbTable THEN {PermissionDenied} ELSE {}),
           MaxReadRuns)

\* Run, lines 35-39: m.db.Begin()
Begin ==
  /\ pc = "begin"
  /\ \E ok \in BOOLEAN :
       IF ok
       THEN /\ pc' = "loop" /\ txTable' = dbTable /\ txRows' = dbRows
            /\ UNCHANGED <<err, ret, outcome, envFault>>
       ELSE /\ pc' = "idle" /\ err' = BeginErr /\ ret' = BeginErr
            /\ outcome' = "notx" /\ envFault' = TRUE
            /\ UNCHANGED <<txTable, txRows>>
  /\ UNCHANGED <<dbTable, dbRows, migrations, k, latest, execLog, failedBody,
                 preTable, preVersion, priorCommitted, runs, committedLog,
                 committedLists>>
  /\ UNCHANGED <<scanned, qVars, vVars, cVars>>

\* a guard that also re-applies the migration at the current version
PendingAtOrAbove(m, cur) == m.Version >= cur

\* the guard of line 47
Pending(m, cur) == m.Version > cur

\* Run, lines 43-51: one iteration of the range loop
Apply ==
  /\ pc = "loop"
  /\ IF k > Len(migrations) \/ err # NoErr
     THEN /\ pc' = "post"
          /\ UNCHANGED <<k, latest, err, txTable, txRows, execLog, failedBody>>
     ELSE LET m == migrations[k] IN
          IF Pending(m, latest)
          THEN \E bodyOk \in BOOLEAN :
                 LET e == BodyEffect(m, txTable, txRows) IN
                   /\ execLog' = Append(execLog, m.Version)
                   /\ latest' = m.Version
                   /\ k' = k + 1
                   /\ pc' = "loop"
                   /\ IF bodyOk /\ e.ok
                      THEN /\ err' = NoErr /\ txTable' = e.table
                           /\ txRows' = e.rows /\ failedBody' = failedBody
                      ELSE /\ err' = BodyErr(m.Version)
                           /\ failedBody' = m.Version
                           /\ UNCHANGED <<txTable, txRows>>
          ELSE /\ k' = k + 1 /\ pc' = "loop"
               /\ UNCHANGED <<latest, err, txTable, txRows, execLog, failedBody>>
  /\ UNCHANGED <<dbTable, dbRows, migrations, ret, outcome, envFault, preTable,
                 preVersion, priorCommitted, runs, committedLog, committedLists>>
  /\ UNCHANGED <<scanned, qVars, vVars, cVars>>

\* a post-loop step that commits whatever the loop's error
MayCommitAlways(e) == TRUE

\* a post-loop step with the test inverted
MayCommitOnError(e) == e # NoErr

\* the condition of line 53 under which the batch is committed
MayCommit(e) == e = NoErr

\* Run, lines 53-61 and the deferred tx.Rollback()
Finish ==
  /\ pc = "post"
  /\ pc' = "idle"
  /\ IF MayCommit(err)
     THEN LET u == UpdateEffect(latest, txTable, txRows) IN
          IF ~u.ok
          THEN /\ ret' = UpdateErr /\ outcome' = "rolledback"
               /\ UNCHANGED <<dbTable, dbRows, envFault, committedLog, committedLists>>
          ELSE \E commitOk \in BOOLEAN :
                 /\ ret' = err
                 /\ IF commitOk
                    THEN /\ dbTable' = txTable /\ dbRows' = u.rows
                         /\ outcome' = "committed"
                         /\ committedLog' = committedLog \o
                              SelectSeq(execLog, LAMBDA v : v # failedBody)
                         /\ committedLists' = committedLists \cup {migrations}
                         /\ UNCHANGED envFault
                    ELSE /\ outcome' = "rolledback" /\ envFault' = TRUE
                         /\ UNCHANGED <<dbTable, dbRows, committedLog, committedLists>>
     ELSE /\ ret' = err /\ outcome' = "rolledback"
          /\ UNCHANGED <<dbTable, dbRows, envFault, committedLog, committedLists>>
  /\ UNCHANGED <<migrations, k, latest, err, txTable, txRows, execLog,
                 failedBody, preTable, preVersion, priorCommitted, runs>>
  /\ UNCHANGED <<scanned, qVars, vVars, cVars>>

\* ------------------------------------------------------------------------
\* Properties of the migration runner
\* ------------------------------------------------------------------------
RunDone == pc = "idle" /\ runs > 0

ListVersions == {migrations[n].Version : n \in 1..Len(migrations)}

HasInitial == \E n \in 1..Len(migrations) : migrations[n].Sql = InitialMigration

IsAscending(ms) ==
  \A a, b \in 1..Len(ms) : a < b => ms[a].Version < ms[b].Version

\* the Run met no failure: no body failed, and the connection failed
\* neither the version read nor Begin nor Commit
AllSucceeded == failedBody = 0 /\ ~envFault

\* every body of the list was executed exactly once, in ascending order
ExecutedOnceAscending ==
  /\ Range(execLog) = ListVersions
  /\ Len(execLog) = Cardinality(ListVersions)
  /\ \A a, b \in 1..Len(execLog) : a < b => execLog[a] < execLog[b]

\* C1 as stated: a Run on a database without version table, with the
\* initial migration in the list, in ANY slice order and with every body
\* succeeding, persists the highest version and executes every body exactly
\* once in ascending order.
C1_AnyOrder ==
  (RunDone /\ ~preTable /\ HasInitial /\ AllSucceeded)
    => (PersistedVersion = MaxOf(ListVersions) /\ ExecutedOnceAscending)

\* C1 amended: the same, for a list supplied in ascending version order
\* (Run applies the list in slice order and does not sort it).
C1_AscendingOrder ==
  (RunDone /\ ~preTable /\ HasInitial /\ AllSucceeded /\ IsAscending(migrations))
    => (PersistedVersion = MaxOf(ListVersions) /\ ExecutedOnceAscending)

C1_Witness ==
  /\ RunDone /\ ~preTable /\ HasInitial /\ AllSucceeded
  /\ IsAscending(migrations) /\ Len(migrations) = MaxVersion
  /\ outcome = "committed" /\ PersistedVersion = MaxVersion
  /\ Len(execLog) = MaxVersion

Count(s, v) == Cardinality({n \in 1..Len(s) : s[n] = v})

C3_VersionOnlyOfCommittedBody ==
  /\ PersistedVersion = 0 \/ PersistedVersion \in Range(committedLog)
  /\ (RunDone /\ failedBody # 0)
       => /\ ret = BodyErr(failedBody)
          /\ execLog[Len(execLog)] = failedBody
          /\ Count(execLog, failedBody) = 1
          /\ outcome = "rolledback"
          /\ PersistedVersion = preVersion /\ dbTable = preTable

C3_Witness ==
  /\ RunDone /\ failedBody # 0 /\ preVersion >= 1
  /\ \E n \in 1..Len(migrations) :
       migrations[n].Version > failedBody /\ migrations[n].Version \notin Range(execLog)
  /\ PersistedVersion = preVersion

\* C13 as stated: a Run returns no error only if its transaction was
\* committed, the executed bodies and the version update being persisted;
\* a Run that did not commit (its Commit failed) returns an error and leaves
\* the persisted version unchanged.
C13_NilOnlyIfCommitted ==
  (RunDone /\ ret = NoErr)
    => /\ outcome = "committed"
       /\ PersistedVersion = latest
       /\ \A n \in 1..Len(execLog) : execLog[n] \in Range(committedLog)

\* C11 as stated: when the version table does not exist the Run proceeds
\* with current version 0; on every other failure of the version read the
\* Run returns that error, begins no transaction and executes no body.
C11_OnlyMissingTableTolerated ==
  runs > 0 =>
    /\ scanned.err = "undefined_table"
         => (ret # ReadErr /\ outcome # "notx" /\ (pc = "begin" => latest = 0))
    /\ scanned.err \notin {"nil", "undefined_table"}
         => (pc = "idle" /\ ret = ReadErr /\ outcome = "notx" /\ execLog = <<>>)

\* the read failures Run passes over besides the missing table: no row in
\* the table (sql.ErrNoRows) and any error whose message contains
\* "migrations"
Tolerated(scan) == scan.err = "ErrNoRows" \/ scan.mentions

\* C11 amended: when the version read fails because the table does not
\* exist, finds no row (sql.ErrNoRows), or fails with any error whose
\* message contains "migrations", the Run proceeds with current version 0;
\* on every other failure of the read the Run returns that error, begins no
\* transaction and executes no body.
C11_ReadFailureHandling ==
  runs > 0 =>
    /\ (scanned.err # "nil" /\ Tolerated(scanned))
         => (ret # ReadErr /\ (pc = "begin" => latest = 0)
             /\ (outcome = "notx" => ret = BeginErr))
    /\ (scanned.err # "nil" /\ ~Tolerated(scanned))
         => (pc = "idle" /\ ret = ReadErr /\ outcome = "notx" /\ execLog = <<>>)

C11_Witness ==
  /\ runs > 0 /\ scanned = ConnectionFailure /\ dbTable /\ dbRows # {}
  /\ pc = "idle" /\ ret = ReadErr /\ outcome = "notx" /\ execLog = <<>>

\* ========================================================================
\* Two callers of Migrate.Run on the same database
\* ========================================================================
MaxCRuns == 2        \* Runs started by the two callers together

Runners == {1, 2}

OtherRunner(r) == CHOOSE o \in Runners : o # r

\* the locals of a Run that has not started
IdleRun ==
  [pc |-> "idle", k |-> 1, latest |-> 0, err |-> NoErr, exec |-> <<>>,
   pre |-> 0, tx |-> "none", wrote |-> FALSE, txTable |-> FALSE, txRows |-> {}]

\* what a statement of r's transaction sees of the catalog: its own
\* uncommitted writes, else the committed catalog
ViewTable(r) == IF cRun[r].wrote THEN cRun[r].txTable ELSE dbTable
ViewRows(r) == IF cRun[r].wrote THEN cRun[r].txRows ELSE dbRows

\* a statement writing the catalog waits while the other transaction holds
\* uncommitted writes to it
MayWriteCatalog(r) == ~cRun[OtherRunner(r)].wrote

CIdle ==
  /\ cList = <<>> /\ cRun = [r \in Runners |-> IdleRun]
  /\ cOverlap = FALSE /\ cStarted = 0

CInit ==
  /\ cList \in MigrationLists /\ cRun = [r \in Runners |-> IdleRun]
  /\ cOverlap = FALSE /\ cStarted = 0

migLocals == <<pc, migrations, k, latest, err, txTable, txRows, execLog,
               failedBody, ret, outcome, envFault, preTable, preVersion,
               priorCommitted, runs, committedLog, committedLists, scanned>>

\* Run of caller r, lines 30-33
CRead(r) ==
  /\ cRun[r].pc = "idle" /\ cStarted < MaxCRuns
  /\ \E scan \in ScanResults(dbTable, dbRows) :
       LET g == getLatestVersion(scan) IN
         cRun' = [cRun EXCEPT ![r] =
                    [IdleRun EXCEPT !.pc = IF g.err # NoErr THEN "idle" ELSE "begin",
                                    !.latest = g.latest, !.pre = g.latest,
                                    !.err = g.err]]
  /\ cOverlap' = (cRun[OtherRunner(r)].pc # "idle")
  /\ cStarted' = cStarted + 1
  /\ UNCHANGED <<cList, dbTable, dbRows, migLocals, qVars, vVars>>

\* Run of caller r, lines 35-39
CBegin(r) ==
  /\ cRun[r].pc = "begin"
  /\ \E ok \in BOOLEAN :
       cRun' = [cRun EXCEPT ![r].pc = IF ok THEN "loop" ELSE "idle",
                            ![r].tx = IF ok THEN "open" ELSE "none",
                            ![r].err = IF ok THEN NoErr ELSE BeginErr]
  /\ UNCHANGED <<cList, cOverlap, cStarted, dbTable, dbRows, migLocals, qVars, vVars>>

\* Run of caller r, lines 43-51: one iteration of the range loop
CApply(r) ==
  /\ cRun[r].pc = "loop"
  /\ LET me == cRun[r] IN
     IF me.k > Len(cList) \/ me.err # NoErr
     THEN cRun' = [cRun EXCEPT ![r].pc = "post"]
     ELSE LET m == cList[me.k] IN
          IF Pending(m, me.latest)
          THEN /\ m.Sql = InitialMigration => MayWriteCatalog(r)
               /\ \E bodyOk \in BOOLEAN :
                    LET e == BodyEffect(m, ViewTable(r), ViewRows(r)) IN
                    IF bodyOk /\ e.ok
                    THEN cRun' = [cRun EXCEPT
                                    ![r].k = me.k + 1, ![r].latest = m.Version,
                                    ![r].exec = Append(me.exec, m.Version),
                                    ![r].wrote = me.wrote \/ m.Sql = InitialMigration,
                                    ![r].txTable = e.table, ![r].txRows = e.rows]
                    ELSE cRun' = [cRun EXCEPT
                                    ![r].k = me.k + 1, ![r].latest = m.Version,
                                    ![r].err = BodyErr(m.Version)]
          ELSE cRun' = [cRun EXCEPT ![r].k = me.k + 1]
  /\ UNCHANGED <<cList, cOverlap, cStarted, dbTable, dbRows, migLocals, qVars, vVars>>

\* Run of caller r, lines 53-61 and the deferred tx.Rollback()
CFinish(r) ==
  /\ cRun[r].pc = "post"
  /\ LET me == cRun[r]
         closed(how, e) == [cRun EXCEPT ![r].pc = "idle", ![r].tx = how,
                                        ![r].err = e, ![r].wrote = FALSE]
     IN
     IF MayCommit(me.err)
     THEN /\ ViewTable(r) => MayWriteCatalog(r)
          /\ LET u == UpdateEffect(me.latest, ViewTable(r), ViewRows(r)) IN
             IF ~u.ok
             THEN /\ cRun' = closed("rolledback", UpdateErr)
                  /\ UNCHANGED <<dbTable, dbRows>>
             ELSE \E commitOk \in BOOLEAN :
                    IF commitOk
                    THEN /\ cRun' = closed("committed", me.err)
                         /\ dbTable' = ViewTable(r) /\ dbRows' = u.rows
                    ELSE /\ cRun' = closed("rolledback", me.err)
                         /\ UNCHANGED <<dbTable, dbRows>>
     ELSE /\ cRun' = closed("rolledback", me.err)
          /\ UNCHANGED <<dbTable, dbRows>>
  /\ UNCHANGED <<cList, cOverlap, cStarted, migLocals, qVars, vVars>>

\* both Runs on record read the same version and both executed, in a
\* transaction not rolled back, the body of the same migration
DoubleApplication ==
  /\ cRun[1].pre = cRun[2].pre
  /\ \E v \in Versions :
       \A r \in Runners :
         /\ cRun[r].tx \in {"open", "committed"}
         /\ \E n \in 1..Len(cRun[r].exec) : cRun[r].exec[n] = v

Letters ==
  {"a","b","c","d","e","f","g","h","i","j","k","l","m","n","o","p","q","r",
   "s","t","u","v","w","x","y","z","A","B","C","D","E","F","G","H","I","J",
   "K","L","M","N","O","P","Q","R","S","T","U","V","W","X","Y","Z"}

Digits == <<"0","1","2","3","4","5","6","7","8","9">>

RECURSIVE Concat(_)
\* strings.Join(parts, ""), and repeated WriteString
Concat(parts) ==
  IF parts = <<>> THEN <<>> ELSE Head(parts) \o Concat(Tail(parts))

RECURSIVE Join(_, _)
\* strings.Join(parts, sep)
Join(parts, sep) ==
  IF parts = <<>> THEN <<>>
  ELSE IF Len(parts) = 1 THEN parts[1]
  ELSE parts[1] \o sep \o Join(Tail(parts), sep)

RECURSIVE NatDigits(_)
NatDigits(n) ==
  IF n < 10 THEN <<Digits[n + 1]>>
  ELSE NatDigits(n \div 10) \o <<Digits[(n % 10) + 1]>>

\* strconv.Itoa
Itoa(n) == IF n < 0 THEN <<"-">> \o NatDigits(0 - n) ELSE NatDigits(n)

\* strconv.FormatBool
FormatBool(b) == IF b THEN <<"t","r","u","e">> ELSE <<"f","a","l","s","e">>

\* appendInt(b, n, 2) of package time: at least two digits
Pad2(n) == IF n < 10 THEN <<"0">> \o NatDigits(n) ELSE NatDigits(n)

\* ---- Go values passed as parameters ------------------------------------
NilValue == [k |-> "nil"]
StringValue(s) == [k |-> "string", s |-> s]
IntValue(n) == [k |-> "int", n |-> n]
BoolValue(b) == [k |-> "bool", b |-> b]
\* time.Time: the instant in minutes since 2006-01-01 00:00 UTC, and the
\* offset of its location east of UTC in minutes
TimeValue(utc, off) == [k |-> "time", utc |-> utc, off |-> off]
\* *string, *int, *float64, *bool, *decimal.Decimal, *time.Time
NilPtr(to) == [k |-> "ptr", to |-> to, isNil |-> TRUE, v |-> NilValue]
PtrTo(v) == [k |-> "ptr", to |-> v.k, isNil |-> FALSE, v |-> v]
\* CommaListParam; a nil one has isNil and no elements
CommaList(isNil, elems) == [k |-> "CommaListParam", isNil |-> isNil, elems |-> elems]
\* any other Go value, described by its shape g
Other(g) == [k |-> "other", g |-> g]

SliceOfInt(isNil, elems) == [t |-> "slice", isNil |-> isNil, elems |-> elems]
MapShape(isNil) == [t |-> "map", isNil |-> isNil]
StructShape == [t |-> "struct"]
NilPtrShape(to) == [t |-> "ptr", isNil |-> TRUE, to |-> to]
PtrShape(g) == [t |-> "ptr", isNil |-> FALSE, g |-> g]
RawMessage(text) == [t |-> "raw", text |-> text]
ChanShape == [t |-> "chan"]

NULL == <<"N","U","L","L">>
JsonNull == <<"n","u","l","l">>

RECURSIVE MarshalShape(_)
\* json.Marshal on the shapes above: [ok, text]
MarshalShape(g) ==
  CASE g.t = "slice" ->
         IF g.isNil THEN [ok |-> TRUE, text |-> JsonNull]
         ELSE [ok |-> TRUE,
               text |-> <<"[">> \o Join([n \in 1..Len(g.elems) |-> Itoa(g.elems[n])], <<",">>)
                        \o <<"]">>]
    [] g.t = "map" ->
         IF g.isNil THEN [ok |-> TRUE, text |-> JsonNull]
         ELSE [ok |-> TRUE, text |-> <<"{","}">>]
    [] g.t = "struct" ->
         [ok |-> TRUE,
          text |-> <<"{","\"","i","n","t","_","v","a","l","u","e","\"",":","0","}">>]
    [] g.t = "ptr" ->
         IF g.isNil THEN [ok |-> TRUE, text |-> JsonNull] ELSE MarshalShape(g.g)
    [] g.t = "raw" -> [ok |-> TRUE, text |-> g.text]
    [] OTHER -> [ok |-> FALSE, text |-> <<>>]

\* ---- quoteLiteral -------------------------------------------------------
RECURSIVE quoteLoop(_, _, _)
\* the range loop of quoteLiteral: b is the builder, hasSlash the flag
quoteLoop(s, b, hasSlash) ==
  IF s = <<>> THEN [b |-> b, hasSlash |-> hasSlash]
  ELSE LET c == Head(s) IN
       IF c = "\\" THEN quoteLoop(Tail(s), b \o <<"\\","\\">>, TRUE)
       ELSE IF c = "'" THEN quoteLoop(Tail(s), b \o <<"'","'">>, hasSlash)
       ELSE quoteLoop(Tail(s), b \o <<c>>, hasSlash)

\* a quoter that leaves the escape-string marker in place
quoteLiteralKeepE(s) ==
  LET r == quoteLoop(s, <<"E","'">>, FALSE) IN r.b \o <<"'">>

quoteLiteral(s) ==
  LET r == quoteLoop(s, <<"E","'">>, FALSE)
      q == r.b \o <<"'">>
  IN IF ~r.hasSlash THEN Tail(q) ELSE q

\* ---- time.Time.Format(DateTimeTzFormat) ---------------------------------
\* layout "2006-01-02 15:04:05.999999999-07": the zone is written by the
\* "-07" verb, sign and hours only; seconds and fraction are zero here
FormatDateTimeTz(utc, off) ==
  LET local == utc + off
      day == (local \div 1440) + 1
      hh == (local % 1440) \div 60
      mm == local % 60
      zone == IF off < 0 THEN 0 - off ELSE off
  IN <<"2","0","0","6","-","0","1","-">> \o Pad2(day) \o <<" ">>
     \o Pad2(hh) \o <<":">> \o Pad2(mm) \o <<":","0","0">>
     \o <<(IF off < 0 THEN "-" ELSE "+")>> \o Pad2(zone \div 60)

\* ---- toDbValue ----------------------------------------------------------
EncOk(text) == [err |-> "nil", text |-> text]
EncFail == [err |-> "json", text |-> <<>>]

\* an encoder without the test for the JSON null literal
isJsonNullNever(text) == FALSE

\* asString == "null" (line 543)
isJsonNull(text) == text = JsonNull

RECURSIVE commaLoop(_, _)
RECURSIVE toDbValue(_)
\* the loop of the CommaListParam case: e collects the encoded elements
commaLoop(elems, e) ==
  IF elems = <<>> THEN EncOk(Join(e, <<",", " ">>))
  ELSE LET r == toDbValue(Head(elems)) IN
       IF r.err # "nil" THEN [err |-> r.err, text |-> <<>>]
       ELSE commaLoop(Tail(elems), Append(e, r.text))

toDbValue(value) ==
  CASE value.k = "nil" -> EncOk(NULL)
    [] value.k = "ptr" -> IF value.isNil THEN EncOk(NULL) ELSE toDbValue(value.v)
    [] value.k = "string" -> EncOk(quoteLiteral(value.s))
    [] value.k = "int" -> EncOk(Itoa(value.n))
    [] value.k = "bool" -> EncOk(FormatBool(value.b))
    [] value.k = "time" -> EncOk(quoteLiteral(FormatDateTimeTz(value.utc, value.off)))
    [] value.k = "CommaListParam" -> commaLoop(value.elems, <<>>)
    [] OTHER ->
         LET m == MarshalShape(value.g) IN
         IF ~m.ok THEN EncFail
         ELSE IF isJsonNull(m.text) THEN EncOk(NULL)
         ELSE EncOk(quoteLiteral(m.text))

\* ========================================================================
\* Placeholder scanner (qprintf) and statement executor
\* ========================================================================
\* isNotWordChar of qprintf
isNotWordChar(r) == ~(r \in Letters \/ r = "_")

\* strings.IndexRune(s, c): 0 stands for Go's -1, indices are 1-based
IndexRune(s, c) ==
  IF \E n \in 1..Len(s) : s[n] = c
  THEN CHOOSE n \in 1..Len(s) : s[n] = c /\ \A m \in 1..(n - 1) : s[m] # c
  ELSE 0

\* strings.IndexFunc(s, isNotWordChar)
IndexNotWord(s) ==
  IF \E n \in 1..Len(s) : isNotWordChar(s[n])
  THEN CHOOSE n \in 1..Len(s) :
         isNotWordChar(s[n]) /\ \A m \in 1..(n - 1) : ~isNotWordChar(s[m])
  ELSE 0

From(s, n) == SubSeq(s, n, Len(s))

NilError == [kind |-> "nil", param |-> <<>>]
MissingError(param) == [kind |-> "missing", param |-> param]
EncodeError == [kind |-> "json", param |-> <<>>]

\* a failure return that hands back the text built so far
failedTextPartial(sofar) == sofar

\* the text returned with an error (lines 355 and 359): always empty
failedText(sofar) == <<>>

\* a resumption that steps over the character ending the name
restAfterNameSkipping(s1, idxEnd) == From(s1, idxEnd + 1)

\* the rest to scan after a placeholder (line 365)
restAfterName(s1, idxEnd) == From(s1, idxEnd)

RECURSIVE qprintfLoop(_, _, _, _, _)
\* the for loop of qprintf. s is the unscanned rest, result the builder;
\* base counts the characters of sql before s, and looked records the
\* positions in sql of the colons whose name was looked up in params
qprintfLoop(s, params, result, base, looked) ==
  LET idx == IndexRune(s, ":") IN
  IF idx = 0 \/ idx = Len(s)
  THEN [text |-> result \o s, err |-> NilError, looked |-> looked]
  ELSE IF isNotWordChar(s[idx + 1])
  THEN qprintfLoop(From(s, idx + 2), params, result \o SubSeq(s, 1, idx + 1),
                   base + idx + 1, looked)
  ELSE LET s1 == From(s, idx + 1)
           idxEnd == IndexNotWord(s1)
           param == IF idxEnd = 0 THEN s1 ELSE SubSeq(s1, 1, idxEnd - 1)
           looked1 == Append(looked, base + idx)
           sofar == result \o SubSeq(s, 1, idx - 1)
       IN IF param \notin DOMAIN params
          THEN [text |-> failedText(sofar), err |-> MissingError(param),
                looked |-> looked1]
          ELSE LET c == toDbValue(params[param]) IN
               IF c.err # "nil"
               THEN [text |-> failedText(sofar), err |-> EncodeError,
                     looked |-> looked1]
               ELSE LET result1 == sofar \o c.text IN
                    IF idxEnd = 0
                    THEN [text |-> result1, err |-> NilError, looked |-> looked1]
                    ELSE qprintfLoop(restAfterName(s1, idxEnd), params, result1,
                                     base + idx + idxEnd - 1, looked1)

qprintf(sql, params) == qprintfLoop(sql, params, <<>>, 0, <<>>)

\* ---- Error and wrapError ------------------------------------------------
NoWrapped == [isNil |-> TRUE, cause |-> NilError, Query |-> <<>>, Params |-> <<>>]

wrapError(e, sql, params) ==
  IF e = NilError THEN NoWrapped
  ELSE [isNil |-> FALSE, cause |-> e, Query |-> sql, Params |-> params]

\* what the connection answers to a forwarded statement
DbError == [kind |-> "db", param |-> <<>>]
DbAnswers == {NilError, DbError}

Call(op, ctx, query) == [op |-> op, ctx |-> ctx, query |-> query]

\* an Exec that forwards the template as it stands when rendering fails
ExecForwardAnyway(ctx, sql, params, answer) ==
  LET r == qprintf(sql, params) IN
  IF r.err # NilError
  THEN [calls |-> <<Call("ExecContext", ctx, sql)>>, ok |-> FALSE,
        err |-> wrapError(r.err, sql, params)]
  ELSE IF answer # NilError
  THEN [calls |-> <<Call("ExecContext", ctx, r.text)>>, ok |-> FALSE,
        err |-> wrapError(answer, sql, params)]
  ELSE [calls |-> <<Call("ExecContext", ctx, r.text)>>, ok |-> TRUE, err |-> NoWrapped]

\* Exec: the calls made on the connection, and the returned pair
Exec(ctx, sql, params, answer) ==
  LET r == qprintf(sql, params) IN
  IF r.err # NilError
  THEN [calls |-> <<>>, ok |-> FALSE, err |-> wrapError(r.err, sql, params)]
  ELSE IF answer # NilError
  THEN [calls |-> <<Call("ExecContext", ctx, r.text)>>, ok |-> FALSE,
        err |-> wrapError(answer, sql, params)]
  ELSE [calls |-> <<Call("ExecContext", ctx, r.text)>>, ok |-> TRUE, err |-> NoWrapped]

\* Query
Query(ctx, sql, params, answer) ==
  LET r == qprintf(sql, params) IN
  IF r.err # NilError
  THEN [calls |-> <<>>, ok |-> FALSE, err |-> wrapError(r.err, sql, params)]
  ELSE IF answer # NilError
  THEN [calls |-> <<Call("QueryContext", ctx, r.text)>>, ok |-> FALSE,
        err |-> wrapError(answer, sql, params)]
  ELSE [calls |-> <<Call("QueryContext", ctx, r.text)>>, ok |-> TRUE, err |-> NoWrapped]

\* QueryRow: the row handle is returned without inspecting any failure
QueryRow(ctx, sql, params) ==
  LET r == qprintf(sql, params) IN
  IF r.err # NilError
  THEN [calls |-> <<>>, ok |-> FALSE, err |-> wrapError(r.err, sql, params)]
  ELSE [calls |-> <<Call("QueryRowContext", ctx, r.text)>>, ok |-> TRUE, err |-> NoWrapped]

\* ------------------------------------------------------------------------
\* Inputs of the scanner and the executor
\* ------------------------------------------------------------------------
MaxTplLen == 4       \* longest template
TplChars == {":", "a", "b", "1"}
Templates == SeqsUpTo(TplChars, MaxTplLen)
Keys == {<<"a">>, <<"a", "b">>}
\* a text holding a placeholder-like token, the nil value, and a value
\* json.Marshal rejects
ParamValues == {StringValue(<<":", "a">>), NilValue, Other(ChanShape)}
ParamMaps == UNION {[K -> ParamValues] : K \in SUBSET Keys}
Contexts == {"ctx1", "ctx2"}

NoRes == [text |-> <<>>, err |-> NilError, looked |-> <<>>]
NoRet == [ok |-> FALSE, err |-> NoWrapped]

QIdle ==
  /\ qSql = <<>> /\ qParams = <<>> /\ qCtx = "ctx1" /\ qOp = "none"
  /\ qRes = NoRes /\ qCalls = <<>> /\ qRet = NoRet

QInit ==
  /\ qSql \in Templates /\ qParams \in ParamMaps /\ qCtx \in Contexts
  /\ qOp = "none" /\ qRes = NoRes /\ qCalls = <<>> /\ qRet = NoRet

DoQprintf ==
  /\ qOp = "none"
  /\ qOp' = "qprintf"
  /\ qRes' = qprintf(qSql, qParams)
  /\ UNCHANGED <<qSql, qParams, qCtx, qCalls, qRet, migVars, vVars, cVars>>

DoExec ==
  /\ qOp = "none"
  /\ \E answer \in DbAnswers :
       LET r == Exec(qCtx, qSql, qParams, answer) IN
         /\ qOp' = "Exec"
         /\ qCalls' = qCalls \o r.calls
         /\ qRet' = [ok |-> r.ok, err |-> r.err]
  /\ UNCHANGED <<qSql, qParams, qCtx, qRes, migVars, vVars, cVars>>

DoQuery ==
  /\ qOp = "none"
  /\ \E answer \in DbAnswers :
       LET r == Query(qCtx, qSql, qParams, answer) IN
         /\ qOp' = "Query"
         /\ qCalls' = qCalls \o r.calls
         /\ qRet' = [ok |-> r.ok, err |-> r.err]
  /\ UNCHANGED <<qSql, qParams, qCtx, qRes, migVars, vVars, cVars>>

DoQueryRow ==
  /\ qOp = "none"
  /\ LET r == QueryRow(qCtx, qSql, qParams) IN
       /\ qOp' = "QueryRow"
       /\ qCalls' = qCalls \o r.calls
       /\ qRet' = [ok |-> r.ok, err |-> r.err]
  /\ UNCHANGED <<qSql, qParams, qCtx, qRes, migVars, vVars, cVars>>

\* ------------------------------------------------------------------------
\* Inputs of the encoder and the quoter
\* ------------------------------------------------------------------------
MaxTextLen == 3      \* longest text value
MaxInt == 11         \* integers are -MaxInt..MaxInt
MaxListLen == 2      \* longest CommaListParam
MaxTimeSteps == 2    \* instants explored per zone
TextChars == {"a", "'", "\\"}
Texts == SeqsUpTo(TextChars, MaxTextLen) \cup {JsonNull, NULL}
\* zone offsets in minutes east of UTC, whole hours and not
ZoneOffsets == {-210, -60, 0, 60, 330, 345}
TimeInstants == {720 + 345 * n : n \in 0..MaxTimeSteps}
Times == {TimeValue(u, o) : u \in TimeInstants, o \in ZoneOffsets}
Scalars ==
  {StringValue(t) : t \in Texts} \cup {IntValue(n) : n \in (0 - MaxInt)..MaxInt}
    \cup {BoolValue(b) : b \in BOOLEAN} \cup Times
ListElems == {NilValue, IntValue(1), StringValue(<<"a", "s">>), Other(ChanShape)}
Shapes ==
  {SliceOfInt(TRUE, <<>>), SliceOfInt(FALSE, <<>>), SliceOfInt(FALSE, <<0, 2, 4>>),
   MapShape(TRUE), MapShape(FALSE), StructShape,
   NilPtrShape("slice"), NilPtrShape("array"), NilPtrShape("struct"),
   PtrShape(SliceOfInt(FALSE, <<>>)), PtrShape(StructShape),
   RawMessage(JsonNull), ChanShape}
Values ==
  {NilValue} \cup Scalars
    \cup {NilPtr(t) : t \in {"string", "int", "float64", "bool", "decimal", "time"}}
    \cup {PtrTo(v) : v \in {StringValue(JsonNull), StringValue(<<"a", "'">>),
                             IntValue(7), BoolValue(TRUE), TimeValue(720, 330)}}
    \cup {CommaList(TRUE, <<>>)}
    \cup {CommaList(FALSE, e) : e \in SeqsUpTo(ListElems, MaxListLen)}
    \cup {Other(g) : g \in Shapes}

NoOut == [err |-> "nil", text |-> <<>>]

VIdle == vInput = NilValue /\ vOp = "none" /\ vOut = NoOut

VInit == vInput \in Values /\ vOp = "none" /\ vOut = NoOut

DoToDbValue ==
  /\ vOp = "none"
  /\ vOp' = "toDbValue"
  /\ vOut' = toDbValue(vInput)
  /\ UNCHANGED <<vInput, migVars, qVars, cVars>>

DoQuoteLiteral ==
  /\ vOp = "none" /\ vInput.k = "string"
  /\ vOp' = "quoteLiteral"
  /\ vOut' = EncOk(quoteLiteral(vInput.s))
  /\ UNCHANGED <<vInput, migVars, qVars, cVars>>

\* ------------------------------------------------------------------------
\* Properties of the scanner
\* ------------------------------------------------------------------------
Scanned == qOp = "qprintf"

IsNameChar(c) == c \in Letters \/ c = "_"

\* number of consecutive colons immediately before position i of t
ColonsBefore(t, i) ==
  Cardinality({j \in 1..(i - 1) : \A m \in j..(i - 1) : t[m] = ":"})

\* position i of t holds a colon followed by a name character
ColonName(t, i) == i < Len(t) /\ t[i] = ":" /\ IsNameChar(t[i + 1])

\* the placeholder starts as the template grammar defines them: a colon
\* followed by a name, the colon not itself preceded by a colon
GrammarStart(t, i) == ColonName(t, i) /\ (i = 1 \/ t[i - 1] # ":")

\* the placeholder starts the scanner recognizes: a colon followed by a
\* name, preceded by an even number of consecutive colons
IsStart(t, i) == ColonName(t, i) /\ ColonsBefore(t, i) % 2 = 0

\* last position of the maximal run of name characters after the colon at i
NameEnd(t, i) ==
  CHOOSE e \in (i + 1)..Len(t) :
    /\ \A m \in (i + 1)..e : IsNameChar(t[m])
    /\ (e = Len(t) \/ ~IsNameChar(t[e + 1]))

NameAt(t, i) == SubSeq(t, i + 1, NameEnd(t, i))

Starts(t) == {i \in 1..Len(t) : IsStart(t, i)}

\* C4 as stated: a colon directly preceded by a colon never starts a
\* placeholder (it is never looked up, and a template whose only
\* colon-name pairs are of that kind is returned unchanged), while every
\* colon-name pair not preceded by a colon is looked up, also when a
\* ::type cast follows it.
C4_ColonAfterColonNeverPlaceholder ==
  Scanned =>
    /\ \A n \in 1..Len(qRes.looked) :
         qRes.looked[n] = 1 \/ qSql[qRes.looked[n] - 1] # ":"
    /\ (\A i \in 1..Len(qSql) : ~GrammarStart(qSql, i))
         => (qRes.err = NilError /\ qRes.text = qSql)
    /\ qRes.err = NilError
         => \A i \in 1..Len(qSql) :
              GrammarStart(qSql, i) => \E n \in 1..Len(qRes.looked) : qRes.looked[n] = i

Failing(t, params, i) ==
  \/ NameAt(t, i) \notin DOMAIN params
  \/ toDbValue(params[NameAt(t, i)]).err # "nil"

MissingStarts(t, params) == {i \in Starts(t) : NameAt(t, i) \notin DOMAIN params}

\* C5 as stated: when some recognized placeholder is missing from the
\* mapping, qprintf returns the empty text and a "parameter missing" error
\* naming a missing placeholder.
C5_MissingAlwaysNamed ==
  (Scanned /\ MissingStarts(qSql, qParams) # {})
    => /\ qRes.text = <<>>
       /\ qRes.err.kind = "missing"
       /\ \E i \in MissingStarts(qSql, qParams) : qRes.err.param = NameAt(qSql, i)

\* C5 amended: when some recognized placeholder is missing from the
\* mapping, qprintf returns the empty text and an error: the "parameter
\* missing" error naming the first missing placeholder, unless a placeholder
\* before it has a value that fails to encode, and then that encoding error.
C5_MissingNoPartialOutput ==
  (Scanned /\ MissingStarts(qSql, qParams) # {})
    => LET bad == {i \in Starts(qSql) : Failing(qSql, qParams, i)}
           f == CHOOSE i \in bad : \A j \in bad : i <= j
       IN /\ qRes.text = <<>>
          /\ IF f \in MissingStarts(qSql, qParams)
             THEN qRes.err = MissingError(NameAt(qSql, f))
             ELSE qRes.err = EncodeError

C5_Witness ==
  /\ Scanned /\ qRes.err.kind = "missing" /\ qRes.text = <<>>
  /\ Len(qRes.looked) >= 2
  /\ NameAt(qSql, qRes.looked[1]) \in DOMAIN qParams

\* the template with every recognized placeholder span replaced by the
\* encoded value and every other character kept
Substituted(t, params) ==
  Concat([j \in 1..Len(t) |->
            IF IsStart(t, j) THEN toDbValue(params[NameAt(t, j)]).text
            ELSE IF \E i \in Starts(t) : i < j /\ j <= NameEnd(t, i) THEN <<>>
            ELSE <<t[j]>>])

\* C6: when qprintf succeeds its output is the template with each
\* recognized placeholder span replaced by its encoded value and every other
\* character copied in order; a template in which no colon is followed by a
\* name character is returned unchanged, without error.
C6_OnlyPlaceholdersReplaced ==
  Scanned =>
    /\ qRes.err = NilError => qRes.text = Substituted(qSql, qParams)
    /\ (\A i \in 1..Len(qSql) : ~ColonName(qSql, i))
         => (qRes.err = NilError /\ qRes.text = qSql)

C6_Witness ==
  /\ Scanned /\ qRes.err = NilError
  /\ \E i \in Starts(qSql) : i > 1 /\ NameEnd(qSql, i) < Len(qSql)
  /\ qRes.text # qSql

\* ------------------------------------------------------------------------
\* Properties of the executor
\* ------------------------------------------------------------------------
CollaboratorOp ==
  CASE qOp = "Exec" -> "ExecContext"
    [] qOp = "Query" -> "QueryContext"
    [] qOp = "QueryRow" -> "QueryRowContext"
    [] OTHER -> "none"

\* C10: for Exec, Query and QueryRow, a failed rendering reaches the
\* collaborator with no call and returns the Error wrapper holding the
\* cause, the template and the mapping; a successful rendering makes exactly
\* one call, of the matching operation, with the rendered text and the
\* caller's context.
C10_RenderFailureShortCircuits ==
  (qOp \in {"Exec", "Query", "QueryRow"}) =>
    LET r == qprintf(qSql, qParams) IN
      IF r.err # NilError
      THEN /\ qCalls = <<>>
           /\ ~qRet.ok
           /\ qRet.err = [isNil |-> FALSE, cause |-> r.err,
                          Query |-> qSql, Params |-> qParams]
      ELSE qCalls = <<[op |-> CollaboratorOp, ctx |-> qCtx, query |-> r.text]>>

C10_Witness ==
  /\ qOp = "Exec" /\ qCtx = "ctx2" /\ Len(qCalls) = 1
  /\ qCalls[1].query # qSql /\ qCalls[1].ctx = "ctx2"
  /\ ~qRet.ok /\ qRet.err.cause = DbError

\* ------------------------------------------------------------------------
\* Properties of the encoder and the quoter
\* ------------------------------------------------------------------------
Encoded == vOp = "toDbValue"

\* the null-valued structured inputs: nil slice, nil map, nil pointer to
\* slice, array or struct, and a value whose JSON form is null
NullShape(g) ==
  \/ g.t \in {"slice", "map", "ptr"} /\ g.isNil
  \/ g.t = "raw" /\ g.text = JsonNull

\* the null-valued inputs other than a nil list parameter
NullValued(v) ==
  \/ v.k = "nil"
  \/ v.k = "ptr" /\ v.isNil
  \/ v.k = "other" /\ NullShape(v.g)

NilList(v) == v.k = "CommaListParam" /\ v.isNil

\* C7 as stated: every null-valued input, a nil list parameter included,
\* renders as exactly NULL, and no text value renders as NULL.
C7_EveryNullRendersNULL ==
  Encoded =>
    /\ (NullValued(vInput) \/ NilList(vInput)) => vOut = EncOk(NULL)
    /\ vInput.k = "string" => vOut.text # NULL

\* C7 amended: every null-valued input other than a nil list parameter
\* renders as exactly NULL; a nil list parameter renders as the empty text,
\* like an empty list; and no text value renders as NULL.
C7_NullRendersNULLExceptNilList ==
  Encoded =>
    /\ NullValued(vInput) => vOut = EncOk(NULL)
    /\ NilList(vInput) => vOut = EncOk(<<>>)
    /\ vInput.k = "string" => vOut.text # NULL

C7_Witness ==
  /\ Encoded /\ vInput = Other(NilPtrShape("struct")) /\ vOut = EncOk(NULL)

\* s with every quote and every backslash doubled
Doubled(s) ==
  Concat([n \in 1..Len(s) |->
            IF s[n] = "'" \/ s[n] = "\\" THEN <<s[n], s[n]>> ELSE <<s[n]>>])

\* C8: quoteLiteral(s) is P ' body ', the body being s with quotes and
\* backslashes doubled, and P being E exactly when s holds a backslash.
C8_QuoteLiteralForm ==
  (vOp = "quoteLiteral") =>
    vOut.text = (IF \E n \in 1..Len(vInput.s) : vInput.s[n] = "\\"
                 THEN <<"E">> ELSE <<>>)
                \o <<"'">> \o Doubled(vInput.s) \o <<"'">>

C8_Witness ==
  /\ vOp = "quoteLiteral" /\ vInput.s = <<"a", "'", "\\">>
  /\ Head(vOut.text) = "E" /\ Len(vOut.text) = 8

\* ---- how the database reads the literals --------------------------------
DigitValue(c) == (CHOOSE n \in 1..10 : Digits[n] = c) - 1

RECURSIVE ParseNat(_, _)
ParseNat(text, acc) ==
  IF text = <<>> THEN acc ELSE ParseNat(Tail(text), acc * 10 + DigitValue(Head(text)))

ParseInt(text) ==
  IF text # <<>> /\ Head(text) = "-" THEN 0 - ParseNat(Tail(text), 0)
  ELSE ParseNat(text, 0)

RECURSIVE Unescape(_, _)
\* the body of a string literal: '' is a quote; in an E'' literal \\ is a
\* backslash, in a plain one a backslash stands for itself
Unescape(body, escapes) ==
  IF body = <<>> THEN <<>>
  ELSE IF Len(body) >= 2 /\ body[1] = "'" /\ body[2] = "'"
  THEN <<"'">> \o Unescape(From(body, 3), escapes)
  ELSE IF escapes /\ Len(body) >= 2 /\ body[1] = "\\"
  THEN <<body[2]>> \o Unescape(From(body, 3), escapes)
  ELSE <<body[1]>> \o Unescape(Tail(body), escapes)

ParseStringLiteral(lit) ==
  IF Head(lit) = "E" THEN Unescape(SubSeq(lit, 3, Len(lit) - 1), TRUE)
  ELSE Unescape(SubSeq(lit, 2, Len(lit) - 1), FALSE)

\* the instant, in minutes since 2006-01-01 00:00 UTC, denoted by
\* "2006-01-DD HH:MM:SS" followed by the zone "+HH", "-HH" or with ":MM"
ParseTimestampTz(text) ==
  LET day == ParseNat(SubSeq(text, 9, 10), 0)
      hh == ParseNat(SubSeq(text, 12, 13), 0)
      mm == ParseNat(SubSeq(text, 15, 16), 0)
      zh == ParseNat(SubSeq(text, 21, 22), 0)
      zm == IF Len(text) >= 25 THEN ParseNat(SubSeq(text, 24, 25), 0) ELSE 0
      zone == IF text[20] = "-" THEN 0 - (zh * 60 + zm) ELSE zh * 60 + zm
  IN (day - 1) * 1440 + hh * 60 + mm - zone

\* C9 as stated: for integers, booleans, texts and timestamps with time
\* zone, reading back the literal toDbValue produced gives the value that
\* was encoded (for a timestamp: the same instant, whatever the zone).
C9_ScalarRoundTrip ==
  Encoded =>
    /\ vInput.k = "int" => ParseInt(vOut.text) = vInput.n
    /\ vInput.k = "bool" => (vOut.text = <<"t","r","u","e">>) = vInput.b
    /\ vInput.k = "string" => ParseStringLiteral(vOut.text) = vInput.s
    /\ vInput.k = "time" =>
         ParseTimestampTz(ParseStringLiteral(vOut.text)) = vInput.utc

vars == <<migVars, qVars, vVars, cVars>>

Init == MigInit /\ QIdle /\ VIdle /\ CIdle

Next == ReadVersion \/ Begin \/ Apply \/ Finish

Spec == Init /\ [][Next]_vars

\* the runner on a database found in any catalog state: no table, a table
\* without row, a table with its one row
InitR ==
  /\ \E table \in BOOLEAN, rows \in {{}} \cup {{v} : v \in Versions} :
       (~table => rows = {}) /\ MigInitWith(table, rows)
  /\ QIdle /\ VIdle /\ CIdle

NextR == ReadVersionOrDenied \/ Begin \/ Apply \/ Finish

SpecR == InitR /\ [][NextR]_vars

\* two callers on a database found without catalog or at some version
InitC ==
  /\ \E table \in BOOLEAN, rows \in {{v} : v \in Versions} :
       MigInitWith(table, IF table THEN rows ELSE {})
  /\ QIdle /\ VIdle /\ CInit

NextC == \E r \in Runners : CRead(r) \/ CBegin(r) \/ CApply(r) \/ CFinish(r)

SpecC == InitC /\ [][NextC]_vars

InitQ == MigInit /\ QInit /\ VIdle /\ CIdle

NextQ == DoQprintf \/ DoExec \/ DoQuery \/ DoQueryRow

SpecQ == InitQ /\ [][NextQ]_vars

InitV == MigInit /\ QIdle /\ VInit /\ CIdle

NextV == DoToDbValue \/ DoQuoteLiteral

SpecV == InitV /\ [][NextV]_vars

====
